---- MODULE Spec2Model ----
(***************************************************************************)
(* Gem Finder (src/script.js): the refresh pipeline fetchData, with its    *)
(* primary (BloFin perpetuals) stage, its fallback (CoinGecko markets)     *)
(* stage and the CoinGecko name/image lookup, and the search filter        *)
(* filterTokens, as a state machine.  fetchData is an async function: it   *)
(* is cut at its awaits, and several invocations may be in flight.         *)
(*                                                                         *)
(* Numbers are JavaScript numbers with exact arithmetic: a value n/d with  *)
(* d > 0 is the rational n/d, 1/0 and -1/0 are +Infinity and -Infinity,    *)
(* 0/0 is NaN.  Rounding of doubles and the sign of zero are not modelled. *)
(* undefined and null are two more values of the same record shape.        *)
(* Strings are sequences of one-character strings, so that toLowerCase,    *)
(* trim and includes are computed.                                         *)
(***************************************************************************)
EXTENDS Integers, Sequences, FiniteSets, TLC

\* ------------------------------------------------------------------ numbers

AbsInt(i) == IF i < 0 THEN -i ELSE i

SignInt(i) == IF i < 0 THEN -1 ELSE IF i > 0 THEN 1 ELSE 0

RECURSIVE Gcd(_, _)
Gcd(a, b) == IF b = 0 THEN a ELSE Gcd(b, a % b)

\* The number n/d in lowest terms (d = 0: an infinity or NaN).
Q(n, d) ==
    IF d = 0 THEN [n |-> SignInt(n), d |-> 0]
    ELSE LET s == IF d < 0 THEN -1 ELSE 1
             g == Gcd(AbsInt(n), AbsInt(d))
         IN  [n |-> (s * n) \div g, d |-> (s * d) \div g]

N(i) == [n |-> i, d |-> 1]

NaN == [n |-> 0, d |-> 0]

Infinity == [n |-> 1, d |-> 0]

Undefined == [n |-> 0, d |-> -1]

Null == [n |-> 0, d |-> -2]

IsNaN(x) == x = NaN

IsFinite(x) == x.d > 0

\* ToNumber of a value in an arithmetic position: undefined is NaN, null is 0.
ToNumber(x) == IF x = Undefined THEN NaN ELSE IF x = Null THEN N(0) ELSE x

Add(x, y) ==
    LET a == ToNumber(x)
        b == ToNumber(y)
    IN  IF a.d = 0 /\ b.d = 0
        THEN (IF a = b THEN a ELSE NaN)
        ELSE Q(a.n * b.d + b.n * a.d, a.d * b.d)

Neg(x) == LET a == ToNumber(x) IN [n |-> -a.n, d |-> a.d]

Sub(x, y) == Add(x, Neg(y))

Mul(x, y) ==
    LET a == ToNumber(x)
        b == ToNumber(y)
    IN  Q(a.n * b.n, a.d * b.d)

Div(x, y) ==
    LET a == ToNumber(x)
        b == ToNumber(y)
    IN  IF a.d = 0
        THEN (IF b.d = 0 THEN NaN ELSE Q(IF b.n < 0 THEN -a.n ELSE a.n, 0))
        ELSE Q(a.n * b.d, a.d * b.n)

\* x < y, x <= y, x > y, x >= y: false as soon as an operand is NaN.
Lt(x, y) ==
    LET a == ToNumber(x)
        b == ToNumber(y)
    IN  ~IsNaN(a) /\ ~IsNaN(b) /\ a # b
        /\ (IF a.d = 0 /\ b.d = 0 THEN a.n < b.n ELSE a.n * b.d < b.n * a.d)

Le(x, y) ==
    LET a == ToNumber(x)
        b == ToNumber(y)
    IN  ~IsNaN(a) /\ ~IsNaN(b) /\ (a = b \/ Lt(a, b))

Gt(x, y) == Lt(y, x)

Ge(x, y) == Le(y, x)

\* Math.abs
MathAbs(x) == LET a == ToNumber(x) IN [n |-> AbsInt(a.n), d |-> a.d]

\* Math.max and Math.min of two numbers: NaN when either is NaN.
MathMax(x, y) ==
    LET a == ToNumber(x)
        b == ToNumber(y)
    IN  IF IsNaN(a) \/ IsNaN(b) THEN NaN ELSE IF Lt(a, b) THEN b ELSE a

MathMin(x, y) ==
    LET a == ToNumber(x)
        b == ToNumber(y)
    IN  IF IsNaN(a) \/ IsNaN(b) THEN NaN ELSE IF Lt(b, a) THEN b ELSE a

\* Math.round of a finite number: the nearest integer, halves upwards.
MathRound(x) ==
    IF ~IsFinite(x) THEN x
    ELSE LET m == 2 * x.n + x.d
             k == 2 * x.d
         IN  N(IF m >= 0 THEN m \div k ELSE -((-m + k - 1) \div k))

\* !x for a number, undefined or null.
Falsy(x) == x = Undefined \/ x = Null \/ IsNaN(x) \/ x = N(0)

\* x || y
OrElse(x, y) == IF Falsy(x) THEN y ELSE x

\* parseFloat of a feed field: the number a numeral denotes, NaN for a
\* missing field (parseFloat(undefined), parseFloat(null)).
ParseFloat(x) == IF x = Undefined \/ x = Null THEN NaN ELSE x

\* ------------------------------------------------------------------ strings

UpperChars == <<"A", "B", "C", "D", "E", "G", "H", "I", "J", "K", "L", "O", "P", "R", "S", "T", "U", "X", "Y">>

LowerChars == <<"a", "b", "c", "d", "e", "g", "h", "i", "j", "k", "l", "o", "p", "r", "s", "t", "u", "x", "y">>

LowerChar(c) ==
    IF \E i \in DOMAIN UpperChars : UpperChars[i] = c
    THEN LowerChars[CHOOSE i \in DOMAIN UpperChars : UpperChars[i] = c]
    ELSE c

UpperChar(c) ==
    IF \E i \in DOMAIN LowerChars : LowerChars[i] = c
    THEN UpperChars[CHOOSE i \in DOMAIN LowerChars : LowerChars[i] = c]
    ELSE c

ToLowerCase(s) == [i \in DOMAIN s |-> LowerChar(s[i])]

ToUpperCase(s) == [i \in DOMAIN s |-> UpperChar(s[i])]

RECURSIVE TrimStart(_)
TrimStart(s) == IF s # <<>> /\ Head(s) = " " THEN TrimStart(Tail(s)) ELSE s

RECURSIVE TrimEnd(_)
TrimEnd(s) ==
    IF s # <<>> /\ s[Len(s)] = " " THEN TrimEnd(SubSeq(s, 1, Len(s) - 1)) ELSE s

Trim(s) == TrimEnd(TrimStart(s))

\* s.includes(q)
Includes(s, q) ==
    \E i \in 1..(Len(s) + 1) :
        i + Len(q) - 1 <= Len(s) /\ SubSeq(s, i, i + Len(q) - 1) = q

\* ------------------------------------------------------------ sort, highlight

\* The comparator (a, b) => b.momentumScore - a.momentumScore as sort reads
\* it: a negative, zero or positive verdict; a NaN result counts as +0.
CompareScore(a, b) ==
    LET v == Sub(b.momentumScore, a.momentumScore)
    IN  IF IsNaN(v) THEN 0 ELSE SignInt(v.n)

\* Whether the comparator is a consistent comparator for the elements of s
\* (ECMAScript, Array.prototype.sort): the order of the result is defined by
\* the language only then.  A difference of two scores is NaN, and so reads
\* as "equal", when one of them is NaN; "equal" is then transitive only if
\* all elements compare equal.
ConsistentComparator(s) ==
    \/ \A i \in DOMAIN s : ~IsNaN(ToNumber(s[i].momentumScore))
    \/ \A i, j \in DOMAIN s : CompareScore(s[i], s[j]) = 0

\* The stable order of s under a consistent comparator: an element stands
\* behind those that sort before it and behind those that compare equal with
\* it and stand before it in s.
StableSort(s) ==
    LET placeOf == { <<i, 1 + Cardinality({ j \in DOMAIN s :
                                 \/ CompareScore(s[j], s[i]) < 0
                                 \/ CompareScore(s[j], s[i]) = 0 /\ j < i })>> :
                       i \in DOMAIN s }
    IN  [k \in DOMAIN s |-> s[(CHOOSE p \in placeOf : p[2] = k)[1]]]

Orderings(s) ==
    { [i \in DOMAIN s |-> s[p[i]]] :
        p \in { f \in [DOMAIN s -> DOMAIN s] : \A i, j \in DOMAIN s : f[i] = f[j] => i = j } }

\* What list.sort((a, b) => b.momentumScore - a.momentumScore) can leave in
\* list: the stable descending order when the comparator is consistent, an
\* implementation-defined order of the same elements otherwise.
SortResults(s) ==
    IF ConsistentComparator(s) THEN {StableSort(s)} ELSE Orderings(s)

\* A variant of HighlightCount that truncates where the program rounds:
\* Math.max(1, Math.floor(length * 0.1)).
HighlightCountTruncated(len) == IF len \div 10 > 1 THEN len \div 10 ELSE 1

\* Math.max(1, Math.round(length * 0.1))
HighlightCount(len) == MathMax(N(1), MathRound(Mul(N(len), Q(1, 10)))).n

\* forEach((token, index) => { token.highlight = index < highlightCount })
Highlight(s) ==
    [i \in DOMAIN s |-> s[i] @@ [highlight |-> (i - 1) < HighlightCount(Len(s))]]

\* ------------------------------------------------------------ primary stage

\* stableBases (upper case, compared with the base as the feed spells it)
stableBases ==
    { <<"U","S","D","T">>, <<"U","S","D","C">>, <<"U","S","D">>, <<"B","U","S","D">>,
      <<"D","A","I">>, <<"T","U","S","D">>, <<"P","A","X">>, <<"U","S","D","P">>,
      <<"U","S","D","K">>, <<"U","S","D","D">>, <<"E","U","R">>, <<"J","P","Y">>,
      <<"G","B","P">> }

\* instJson.data.filter(inst => inst.instType === "SWAP" && inst.state === "live")
LiveSwaps(data) ==
    SelectSeq(data, LAMBDA inst : inst.instType = "SWAP" /\ inst.state = "live")

\* A variant of GroupInstrument that opens an entry for every instrument.
GroupInstrumentApart(byBase, inst) ==
    LET base == inst.baseCurrency
    IN  IF base = <<>> \/ base \in stableBases THEN byBase
        ELSE Append(byBase, [base |-> base, instIds |-> <<inst.instId>>])

\* One step of the forEach that fills instrumentsByBase; the object is kept
\* as the sequence of its entries in key (insertion) order.
GroupInstrument(byBase, inst) ==
    LET base == inst.baseCurrency
    IN  IF base = <<>> \/ base \in stableBases THEN byBase
        ELSE IF \E i \in DOMAIN byBase : byBase[i].base = base
        THEN LET i == CHOOSE k \in DOMAIN byBase : byBase[k].base = base
             IN  [byBase EXCEPT ![i].instIds = Append(@, inst.instId)]
        ELSE Append(byBase, [base |-> base, instIds |-> <<inst.instId>>])

RECURSIVE InstrumentsByBase(_)
InstrumentsByBase(instruments) ==
    IF instruments = <<>> THEN <<>>
    ELSE GroupInstrument(InstrumentsByBase(SubSeq(instruments, 1, Len(instruments) - 1)),
                         instruments[Len(instruments)])

\* tickJson.data.forEach(tick => { tickerMap[tick.instId] = tick })
TickerMap(data) ==
    [id \in { data[i].instId : i \in DOMAIN data } |->
        data[CHOOSE k \in DOMAIN data :
                 /\ data[k].instId = id
                 /\ \A j \in (k + 1)..Len(data) : data[j].instId # id]]

\* A variant of SumInstrument that keeps the greatest volume met instead of
\* adding the volumes up.
SumInstrumentGreatest(acc, instId, tickerMap) ==
    IF instId \notin DOMAIN tickerMap THEN acc
    ELSE LET tick == tickerMap[instId]
             vol  == ParseFloat(tick.volCurrency24h)
         IN  IF IsNaN(vol) THEN acc
             ELSE [totalVolume |-> MathMax(acc.totalVolume, vol),
                   has |-> TRUE,
                   primaryTicker |->
                       IF ~acc.has \/ Lt(ParseFloat(acc.primaryTicker.volCurrency24h), vol)
                       THEN tick ELSE acc.primaryTicker]

\* One step of instIds.forEach: acc is [totalVolume, has, primaryTicker].
SumInstrument(acc, instId, tickerMap) ==
    IF instId \notin DOMAIN tickerMap THEN acc
    ELSE LET tick == tickerMap[instId]
             vol  == ParseFloat(tick.volCurrency24h)
         IN  IF IsNaN(vol) THEN acc
             ELSE [totalVolume |-> Add(acc.totalVolume, vol),
                   has |-> TRUE,
                   primaryTicker |->
                       IF ~acc.has \/ Lt(ParseFloat(acc.primaryTicker.volCurrency24h), vol)
                       THEN tick ELSE acc.primaryTicker]

RECURSIVE SumInstruments(_, _)
SumInstruments(instIds, tickerMap) ==
    IF instIds = <<>>
    THEN [totalVolume |-> N(0), has |-> FALSE, primaryTicker |-> [instId |-> "none"]]
    ELSE SumInstrument(SumInstruments(SubSeq(instIds, 1, Len(instIds) - 1), tickerMap),
                       instIds[Len(instIds)], tickerMap)

\* if (!primaryTicker || totalVolume <= 0) continue;
HasVolume(sum) == sum.has /\ ~Le(sum.totalVolume, N(0))

\* if (!open24 || !high24 || !low24 || !last) continue;
ValidPrices(last, open24, high24, low24) ==
    ~(Falsy(open24) \/ Falsy(high24) \/ Falsy(low24) \/ Falsy(last))

\* ((last - open24) / open24) * 100
PriceChange24(last, open24) == Mul(Div(Sub(last, open24), open24), N(100))

\* A variant of Category with a third category for a change of zero.
CategoryWithNeutral(priceChange24) ==
    IF Gt(priceChange24, N(0)) THEN "pumping"
    ELSE IF Lt(priceChange24, N(0)) THEN "dumping" ELSE "neutral"

\* priceChange24 >= 0 ? "pumping" : "dumping"
Category(priceChange24) == IF Ge(priceChange24, N(0)) THEN "pumping" ELSE "dumping"

\* category === "pumping" ? high24 - open24 : open24 - low24
PredictedAmplitude(category, open24, high24, low24) ==
    IF category = "pumping" THEN Sub(high24, open24) ELSE Sub(open24, low24)

\* A variant of AmplitudeSkipped that lets an amplitude of zero through:
\* if (predictedAmplitude < 0) continue;
AmplitudeSkippedBelowZero(predictedAmplitude) == Lt(predictedAmplitude, N(0))

\* if (predictedAmplitude <= 0) continue;
AmplitudeSkipped(predictedAmplitude) == Le(predictedAmplitude, N(0))

\* Math.max(0, Math.min(100, (Math.abs(last - open24) / predictedAmplitude) * 100))
Completion(last, open24, predictedAmplitude) ==
    MathMax(N(0), MathMin(N(100),
        Mul(Div(MathAbs(Sub(last, open24)), predictedAmplitude), N(100))))

\* The body of the loop over baseCurrencies for one base: whether the base
\* counts for maxVolume, whether a record is pushed, and the record.
AggregateBase(entry, tickerMap) ==
    LET sum    == SumInstruments(entry.instIds, tickerMap)
        last   == ParseFloat(sum.primaryTicker.last)
        open24 == ParseFloat(sum.primaryTicker.open24h)
        high24 == ParseFloat(sum.primaryTicker.high24h)
        low24  == ParseFloat(sum.primaryTicker.low24h)
        priceChange24 == PriceChange24(last, open24)
        category == Category(priceChange24)
        predictedAmplitude == PredictedAmplitude(category, open24, high24, low24)
    IN  IF ~HasVolume(sum)
        THEN [counted |-> FALSE, pushed |-> FALSE, totalVolume |-> sum.totalVolume]
        ELSE IF ~ValidPrices(last, open24, high24, low24)
                \/ AmplitudeSkipped(predictedAmplitude)
        THEN [counted |-> TRUE, pushed |-> FALSE, totalVolume |-> sum.totalVolume]
        ELSE [counted |-> TRUE, pushed |-> TRUE, totalVolume |-> sum.totalVolume,
              rec |-> [base |-> entry.base,
                       totalVolume |-> sum.totalVolume,
                       last |-> last,
                       open24 |-> open24,
                       high24 |-> high24,
                       low24 |-> low24,
                       priceChange24 |-> priceChange24,
                       category |-> category,
                       completion |-> Completion(last, open24, predictedAmplitude),
                       predictedAmplitude |-> predictedAmplitude]]

\* aggregated after the loop over baseCurrencies
RECURSIVE Aggregated(_, _)
Aggregated(byBase, tickerMap) ==
    IF byBase = <<>> THEN <<>>
    ELSE LET rest == Aggregated(SubSeq(byBase, 1, Len(byBase) - 1), tickerMap)
             b    == AggregateBase(byBase[Len(byBase)], tickerMap)
         IN  IF b.pushed THEN Append(rest, b.rec) ELSE rest

\* m = Math.max(m, v) for every v of vols, from m = 0: NaN once a NaN is met,
\* the greatest of 0 and vols otherwise.
MaxFromZero(vols) ==
    LET all == { ToNumber(v) : v \in vols } \cup {N(0)}
    IN  IF \E v \in all : IsNaN(v) THEN NaN
        ELSE CHOOSE v \in all : \A w \in all : Le(w, v)

\* A variant of MaxVolume that looks at the bases a record is pushed for only.
MaxVolumeOfPushed(byBase, tickerMap) ==
    MaxFromZero({ AggregateBase(byBase[i], tickerMap).totalVolume :
                    i \in { k \in DOMAIN byBase : AggregateBase(byBase[k], tickerMap).pushed } })

\* maxVolume after the loop over baseCurrencies
MaxVolume(byBase, tickerMap) ==
    MaxFromZero({ AggregateBase(byBase[i], tickerMap).totalVolume :
                    i \in { k \in DOMAIN byBase : AggregateBase(byBase[k], tickerMap).counted } })

\* maxVolume > 0 ? token.totalVolume / maxVolume : 0
VolRatio(totalVolume, maxVolume) ==
    IF Gt(maxVolume, N(0)) THEN Div(totalVolume, maxVolume) ELSE N(0)

\* A variant of MomentumScore that weighs the share of volume by the size of
\* the 24h change: volRatio * Math.abs(token.priceChange24) * earlyFactor.
MomentumScoreOfChange(token, maxVolume) ==
    LET volRatio    == VolRatio(token.totalVolume, maxVolume)
        earlyFactor == Sub(N(1), Div(token.completion, N(100)))
    IN  Mul(Mul(volRatio, MathAbs(token.priceChange24)), earlyFactor)

\* token.momentumScore = token.predictedAmplitude * volRatio * earlyFactor
MomentumScore(token, maxVolume) ==
    LET volRatio    == VolRatio(token.totalVolume, maxVolume)
        earlyFactor == Sub(N(1), Div(token.completion, N(100)))
    IN  Mul(Mul(token.predictedAmplitude, volRatio), earlyFactor)

Scored(aggregated, maxVolume) ==
    [i \in DOMAIN aggregated |->
        aggregated[i] @@ [momentumScore |-> MomentumScore(aggregated[i], maxVolume)]]

\* A variant of FallbackNeeded that also enters the fallback stage when no
\* record of the primary population is left with room to move (every
\* completion is 100, so every score is 0).
FallbackNeededWithoutScore(aggregated) ==
    \A i \in DOMAIN aggregated : aggregated[i].completion = N(100)

\* if (aggregated.length === 0): the fallback stage is entered.
FallbackNeeded(aggregated) == Len(aggregated) = 0

\* ----------------------------------------------------------- fallback stage

fallbackPages == 2

\* stableSymbols (lower case, compared with the lower-cased symbol)
stableSymbols == { ToLowerCase(b) : b \in stableBases }

\* info.total_volume || info.total_volume_usd || 0
FallbackVolume(info) == OrElse(OrElse(info.total_volume, info.total_volume_usd), N(0))

\* if (stableSymbols.has(symbolLower)) continue;
\* if (!totalVolume || totalVolume <= 0) continue;
FallbackCounted(info) ==
    /\ ToLowerCase(info.symbol) \notin stableSymbols
    /\ ~(Falsy(FallbackVolume(info)) \/ Le(FallbackVolume(info), N(0)))

\* price_change_percentage_24h_in_currency !== undefined ? that : price_change_percentage_24h
FallbackPriceChange24(info) ==
    IF info.price_change_percentage_24h_in_currency # Undefined
    THEN info.price_change_percentage_24h_in_currency
    ELSE info.price_change_percentage_24h

\* (high24 !== null && low24 !== null) ? (high24 - low24) : 0
FallbackAmplitude(info) ==
    IF info.high_24h # Null /\ info.low_24h # Null
    THEN Sub(info.high_24h, info.low_24h) ELSE N(0)

\* if (!amplitude || amplitude <= 0) continue;
FallbackAmplitudeSkipped(amplitude) == Falsy(amplitude) \/ Le(amplitude, N(0))

\* The 1h change of lines 224-231.
FallbackPriceChange1h(info) ==
    IF info.price_change_percentage_1h_in_currency # Undefined
    THEN MathAbs(info.price_change_percentage_1h_in_currency)
    ELSE IF info.price_change_percentage_1h # Undefined
    THEN MathAbs(info.price_change_percentage_1h)
    ELSE Div(MathAbs(FallbackPriceChange24(info)), N(24))

\* Math.max(0, Math.min(100, (priceChange1h / Math.abs(priceChange24 || 1e-6)) * 100))
FallbackCompletion(info) ==
    MathMax(N(0), MathMin(N(100),
        Mul(Div(FallbackPriceChange1h(info),
                MathAbs(OrElse(FallbackPriceChange24(info), Q(1, 1000000)))),
            N(100))))

\* The record pushed onto fallbackAgg for info.
FallbackRecord(info) ==
    [name |-> info.name,
     symbol |-> IF info.symbol # <<>> THEN ToUpperCase(info.symbol) ELSE info.id,
     image |-> info.image,
     category |-> Category(FallbackPriceChange24(info)),
     completion |-> FallbackCompletion(info),
     current_price |-> info.current_price,
     totalVolume |-> FallbackVolume(info),
     priceChange24 |-> OrElse(FallbackPriceChange24(info), N(0)),
     amplitude |-> FallbackAmplitude(info)]

\* fallbackAgg after the loop over markets
FallbackAgg(markets) ==
    LET pushed == SelectSeq(markets, LAMBDA info :
                      FallbackCounted(info)
                          /\ ~FallbackAmplitudeSkipped(FallbackAmplitude(info)))
    IN  [i \in DOMAIN pushed |-> FallbackRecord(pushed[i])]

\* maxVol after the loop over markets
FallbackMaxVol(markets) ==
    MaxFromZero({ FallbackVolume(markets[i]) :
                    i \in { k \in DOMAIN markets : FallbackCounted(markets[k]) } })

\* token.momentumScore = token.amplitude * volRatio * earlyFactor
FallbackMomentumScore(token, maxVol) ==
    LET volRatio    == VolRatio(token.totalVolume, maxVol)
        earlyFactor == Sub(N(1), Div(token.completion, N(100)))
    IN  Mul(Mul(token.amplitude, volRatio), earlyFactor)

FallbackScored(fallbackAgg, maxVol) ==
    [i \in DOMAIN fallbackAgg |->
        fallbackAgg[i] @@ [momentumScore |-> FallbackMomentumScore(fallbackAgg[i], maxVol)]]

\* ------------------------------------------------- names and images, filter

\* ids[0] of symbolToIds[sym]: the id of the first coin of coinList whose
\* lower-cased symbol is sym; <<>> when there is none.
FirstId(coinList, sym) ==
    IF \E i \in DOMAIN coinList : ToLowerCase(coinList[i].symbol) = sym
    THEN LET i == CHOOSE k \in DOMAIN coinList :
                      /\ ToLowerCase(coinList[k].symbol) = sym
                      /\ \A j \in 1..(k - 1) : ToLowerCase(coinList[j].symbol) # sym
         IN  coinList[i].id
    ELSE <<>>

\* idMap[token.base]
ChosenId(coinList, base) == FirstId(coinList, ToLowerCase(base))

\* A variant of IdsToFetch that asks for the market details in any case.
IdsToFetchAlways(aggregated, coinList) == TRUE

\* idsToFetch.length > 0
IdsToFetch(aggregated, coinList) ==
    \E i \in DOMAIN aggregated : ChosenId(coinList, aggregated[i].base) # <<>>

\* idDetails[coinId]: the last record of marketInfo with that id.
HasDetails(marketInfo, coinId) ==
    coinId # <<>> /\ \E i \in DOMAIN marketInfo : marketInfo[i].id = coinId

Details(marketInfo, coinId) ==
    marketInfo[CHOOSE k \in DOMAIN marketInfo :
                   /\ marketInfo[k].id = coinId
                   /\ \A j \in (k + 1)..Len(marketInfo) : marketInfo[j].id # coinId]

\* tokens = aggregated.map(token => ({...}))
BuildTokens(aggregated, coinList, marketInfo) ==
    [i \in DOMAIN aggregated |->
        LET token  == aggregated[i]
            coinId == ChosenId(coinList, token.base)
            has    == HasDetails(marketInfo, coinId)
        IN  [name |-> IF has THEN Details(marketInfo, coinId).name ELSE token.base,
             symbol |-> token.base,
             image |-> IF has THEN Details(marketInfo, coinId).image ELSE <<>>,
             category |-> token.category,
             completion |-> token.completion,
             current_price |-> token.last,
             totalVolume |-> token.totalVolume,
             priceChange24 |-> token.priceChange24,
             highlight |-> token.highlight,
             momentumScore |-> token.momentumScore]]

\* A variant of Matches that compares name and symbol as they are spelled.
MatchesAsSpelled(token, query) ==
    Includes(token.name, query) \/ Includes(token.symbol, query)

\* The filter of filterTokens: searchInput.value.trim().toLowerCase(), then
\* the tokens whose lower-cased name or symbol includes it.
Matches(token, query) ==
    \/ Includes(ToLowerCase(token.name), query)
    \/ Includes(ToLowerCase(token.symbol), query)

\* A variant of FilterTokens that leaves out the first of the matching tokens.
FilterTokensAfterFirst(list, value) ==
    LET query == ToLowerCase(Trim(value))
        found == SelectSeq(list, LAMBDA token : Matches(token, query))
    IN  IF query = <<>> THEN list
        ELSE IF Len(found) = 0 THEN found ELSE SubSeq(found, 2, Len(found))

FilterTokens(list, value) ==
    LET query == ToLowerCase(Trim(value))
    IN  IF query = <<>> THEN list
        ELSE SelectSeq(list, LAMBDA token : Matches(token, query))

\* -------------------------------------------------------------------- feeds
\* What the remote services can answer.  A response is rejected (the fetch
\* promise rejects), nonOK (res.ok is false), badJson (res.json() rejects),
\* badShape (a JSON body that is no array where one is expected) or ok with
\* a batch of records.

MaxBatch == 2

MaxBulk == 25

BTC == <<"B", "T", "C">>

ETH == <<"E", "T", "H">>

SOL == <<"S", "O", "L">>

USDC == <<"U", "S", "D", "C">>

Inst(id, type, state, base) ==
    [instId |-> id, instType |-> type, state |-> state, baseCurrency |-> base]

\* BloFin instruments: two live perpetuals of BTC, one of ETH, one of SOL, a
\* stable base, a spot instrument and a suspended perpetual.
InstrumentPool ==
    { Inst(<<"B", "1">>, "SWAP", "live", BTC),
      Inst(<<"B", "2">>, "SWAP", "live", BTC),
      Inst(<<"E", "1">>, "SWAP", "live", ETH),
      Inst(<<"S", "1">>, "SWAP", "live", SOL),
      Inst(<<"U", "1">>, "SWAP", "live", USDC),
      Inst(<<"E", "2">>, "SPOT", "live", ETH),
      Inst(<<"S", "2">>, "SWAP", "suspend", SOL) }

Tick(id, vol, last, open, high, low) ==
    [instId |-> id, volCurrency24h |-> vol, last |-> last, open24h |-> open,
     high24h |-> high, low24h |-> low]

\* BloFin tickers: a half-done pump, a finished pump whose last price lies
\* above the reported high, a half-done dump, a flat price, a missing
\* volume, a missing price, a zero volume and a half-done pump of SOL.
TickerPool ==
    { Tick(<<"B", "1">>, N(100), N(11), N(10), N(12), N(9)),
      Tick(<<"B", "2">>, N(50), N(12), N(10), N(11), N(9)),
      Tick(<<"E", "1">>, N(100), N(8), N(10), N(10), N(6)),
      Tick(<<"E", "1">>, N(200), N(10), N(10), N(10), N(9)),
      Tick(<<"E", "1">>, Undefined, N(8), N(10), N(10), N(6)),
      Tick(<<"S", "1">>, N(300), Undefined, N(10), N(12), N(9)),
      Tick(<<"S", "1">>, N(0), N(11), N(10), N(12), N(9)),
      Tick(<<"S", "1">>, N(50), N(21), N(20), N(24), N(18)),
      Tick(<<"U", "1">>, N(900), N(1), N(1), N(2), N(1)) }

Info(id, symbol, name, image, vol, high, low, price, c24c, c24, c1c, c1) ==
    [id |-> id, symbol |-> symbol, name |-> name, image |-> image,
     total_volume |-> vol, total_volume_usd |-> Undefined,
     high_24h |-> high, low_24h |-> low, current_price |-> price,
     price_change_percentage_24h_in_currency |-> c24c,
     price_change_percentage_24h |-> c24,
     price_change_percentage_1h_in_currency |-> c1c,
     price_change_percentage_1h |-> c1]

Bitcoin == <<"B", "i", "t", "c", "o", "i", "x">>

Ether == <<"E", "t", "h", "e", "r">>

\* CoinGecko market records: complete ones, one whose changes are null, one
\* without any percentage field, a stablecoin, one without range, one
\* without volume.
MarketPool ==
    { Info(<<"b", "t", "c">>, <<"b", "t", "c">>, Bitcoin, <<"b">>, N(100), N(12), N(9), N(11),
           N(10), N(10), N(5), N(5)),
      Info(<<"e", "t", "h">>, <<"e", "t", "h">>, Ether, <<>>, N(50), N(10), N(6), N(8),
           N(-20), N(-20), N(-30), Undefined),
      Info(<<"s", "o", "l">>, <<"s", "o", "l">>, SOL, <<>>, N(100), N(24), N(18), N(21),
           Null, Null, Null, Null),
      Info(<<"x", "r", "p">>, <<"x", "r", "p">>, <<"X", "r", "p">>, <<>>, N(100), N(4), N(2), N(3),
           Undefined, Undefined, Undefined, Undefined),
      Info(<<"x", "l", "x">>, <<"x", "l", "x">>, <<"X", "l", "x">>, <<>>, N(100), N(4), N(2), N(3),
           Undefined, N(10), Undefined, Undefined),
      Info(<<"u", "s", "d", "c">>, <<"u", "s", "d", "c">>, USDC, <<>>, N(900), N(2), N(1), N(1),
           N(1), N(1), N(1), N(1)),
      Info(<<"d", "a", "i">>, <<"D", "a", "i">>, <<"D", "a", "i">>, <<>>, N(900), Null, Null, N(1),
           N(1), N(1), N(1), N(1)),
      Info(<<"a", "d", "a">>, <<"a", "d", "a">>, <<"A", "d", "a">>, <<>>, Null, N(4), N(2), N(3),
           N(10), N(10), N(5), N(5)),
      Info(<<"h", "e", "x">>, <<"h", "e", "x">>, <<"H", "e", "x">>, <<>>, N(5), N(4), Undefined, N(3),
           N(10), N(10), N(5), N(5)) }

\* The records a second page can hold: complete ones (one of them also on the
\* first page) and a stablecoin.
NextPagePool ==
    { Info(<<"b", "t", "c">>, <<"b", "t", "c">>, Bitcoin, <<"b">>, N(100), N(12), N(9), N(11),
           N(10), N(10), N(5), N(5)),
      Info(<<"l", "t", "c">>, <<"l", "t", "c">>, <<"L", "t", "c">>, <<>>, N(200), N(8), N(4), N(6),
           N(-10), N(-10), N(-20), N(-20)),
      Info(<<"u", "s", "d", "c">>, <<"u", "s", "d", "c">>, USDC, <<>>, N(900), N(2), N(1), N(1),
           N(1), N(1), N(1), N(1)) }

Coin(id, symbol) == [id |-> id, symbol |-> symbol]

\* CoinGecko coin list: two coins share the ticker btc.
CoinPool ==
    { Coin(<<"b", "t", "c">>, <<"b", "t", "c">>),
      Coin(<<"b", "t", "c", "2">>, <<"B", "T", "C">>),
      Coin(<<"e", "t", "h">>, <<"e", "t", "h">>) }

Detail(id, name, image) == [id |-> id, name |-> name, image |-> image]

DetailPool ==
    { Detail(<<"b", "t", "c">>, Bitcoin, <<"b">>),
      Detail(<<"b", "t", "c", "2">>, <<"B", "i", "t", "2">>, <<>>),
      Detail(<<"e", "t", "h">>, Ether, <<"e">>) }

\* The sequences without repetition of at most n elements of pool.
RECURSIVE Batches(_, _)
Batches(pool, n) ==
    IF n = 0 THEN {<<>>}
    ELSE LET shorter == Batches(pool, n - 1)
         IN  shorter \cup
                 { c \in { Append(b, x) : b \in shorter, x \in pool } :
                     \A i, j \in DOMAIN c : c[i] = c[j] => i = j }

Failures ==
    { [kind |-> k, data |-> <<>>] : k \in {"rejected", "nonOK", "badJson", "badShape"} }

Responses(batches) == Failures \cup { [kind |-> "ok", data |-> b] : b \in batches }

Digits == <<"0", "1", "2", "3", "4", "5", "6", "7", "8", "9">>

\* The k-th of a long list of distinct bases, and its one instrument.
BulkBase(k) == <<"X", Digits[(k \div 10) + 1], Digits[(k % 10) + 1]>>

BulkInstruments(n) == [k \in 1..n |-> Inst(BulkBase(k), "SWAP", "live", BulkBase(k))]

\* Tickers for the long list: scores that rise along the list, or one and
\* the same score for all.
BulkTickers(pattern) ==
    [k \in 1..MaxBulk |->
        Tick(BulkBase(k), IF pattern = "rising" THEN N(k) ELSE N(1),
             N(11), N(10), N(12), N(9))]

BulkMarkets(n, pattern) ==
    [k \in 1..n |->
        Info(BulkBase(k), BulkBase(k), BulkBase(k), <<>>,
             IF pattern = "rising" THEN N(k) ELSE N(1),
             N(12), N(9), N(11), N(10), N(10), N(5), N(5))]

BulkPatterns == {"rising", "flat"}

\* The feed of one refresh at a time: short batches of every kind of record,
\* and long lists of plain records.
WideFeed ==
    [instruments |-> Responses(Batches(InstrumentPool, MaxBatch)
                         \cup { BulkInstruments(n) : n \in 1..MaxBulk }),
     tickers     |-> Responses(Batches(TickerPool, MaxBatch)
                         \cup { BulkTickers(p) : p \in BulkPatterns }),
     markets     |-> <<Responses(Batches(MarketPool, MaxBatch)
                             \cup { BulkMarkets(n, p) : n \in 1..MaxBulk, p \in BulkPatterns }),
                       Responses(Batches(NextPagePool, 1))>>,
     coinList    |-> Responses(Batches(CoinPool, MaxBatch)),
     marketInfo  |-> Responses(Batches(DetailPool, MaxBatch)),
     values      |-> { <<>>, <<" ", "E", "T">>, <<"x", "1">> }]

\* The feed of overlapping refreshes: one record of each kind.
NarrowFeed ==
    [instruments |-> Responses({ <<>>, <<Inst(<<"B", "1">>, "SWAP", "live", BTC)>> }),
     tickers     |-> Responses({ <<>>,
                                 <<Tick(<<"B", "1">>, N(100), N(11), N(10), N(12), N(9))>> }),
     markets     |-> <<Responses({ <<>>,
                                   <<Info(<<"s", "o", "l">>, <<"s", "o", "l">>, SOL, <<>>, N(100),
                                          N(24), N(18), N(21), N(10), N(10), N(5), N(5))>> }),
                       Responses({ <<>> })>>,
     coinList    |-> Responses({ <<>>, <<Coin(<<"b", "t", "c">>, <<"b", "t", "c">>)>> }),
     marketInfo  |-> Responses({ <<>>, <<Detail(<<"b", "t", "c">>, Bitcoin, <<"b">>)>> }),
     values      |-> { <<>>, <<"b">> }]

\* The records of list at the places keep, in the order of list.
Picked(list, keep) ==
    [k \in 1..Cardinality(keep) |->
        list[CHOOSE i \in keep : Cardinality({ j \in keep : j <= i }) = k]]

\* The lists that are left of list when records are taken out of it.
SubLists(list) == { Picked(list, keep) : keep \in SUBSET DOMAIN list }

\* BloFin instruments: two live perpetuals and a suspended one of BTC, one of
\* ETH, and one whose stable base is spelled in lower case.
GivenInstruments ==
    << Inst(<<"B", "1">>, "SWAP", "live", BTC),
       Inst(<<"B", "2">>, "SWAP", "live", BTC),
       Inst(<<"B", "3">>, "SWAP", "suspend", BTC),
       Inst(<<"E", "1">>, "SWAP", "live", ETH),
       Inst(<<"u", "1">>, "SWAP", "live", <<"u", "s", "d", "c">>) >>

\* BloFin tickers: volumes of 100 and 50 for the two live perpetuals of BTC,
\* one for the suspended one, a second ticker of B2 without a volume, an ETH
\* ticker of high volume whose price has not moved, one whose last price is
\* the open price below the high, and one for the stable base.
GivenTickers ==
    << Tick(<<"B", "1">>, N(100), N(11), N(10), N(12), N(9)),
       Tick(<<"B", "2">>, N(50), N(12), N(10), N(11), N(9)),
       Tick(<<"B", "3">>, N(25), N(11), N(10), N(12), N(9)),
       Tick(<<"B", "2">>, Undefined, N(12), N(10), N(11), N(9)),
       Tick(<<"E", "1">>, N(300), N(10), N(10), N(10), N(9)),
       Tick(<<"E", "1">>, N(80), N(10), N(10), N(12), N(9)),
       Tick(<<"u", "1">>, N(900), N(2), N(1), N(3), N(1)) >>

\* CoinGecko market records: a complete one, one of the same volume with a
\* wider range and a smaller change, one whose price is null, one without
\* any percentage field, one that lost all of its price (a change of -100
\* and a price of 0), a stablecoin, and one of high volume without range.
GivenMarkets ==
    << Info(<<"b", "t", "c">>, <<"b", "t", "c">>, Bitcoin, <<"b">>, N(100), N(12), N(9), N(11),
            N(10), N(10), N(5), N(5)),
       Info(<<"b", "i", "g">>, <<"b", "i", "g">>, <<"B", "i", "g">>, <<>>, N(100), N(120), N(90),
            N(104), N(4), N(4), N(2), N(2)),
       Info(<<"e", "t", "h">>, <<"e", "t", "h">>, Ether, <<>>, N(50), N(10), N(6), Null,
            N(-20), N(-20), N(-30), N(-30)),
       Info(<<"x", "r", "p">>, <<"x", "r", "p">>, <<"X", "r", "p">>, <<>>, N(100), N(4), N(2), N(3),
            Undefined, Undefined, Undefined, Undefined),
       Info(<<"l", "t", "c">>, <<"l", "t", "c">>, <<"L", "t", "c">>, <<>>, N(200), N(8), N(0), N(0),
            N(-100), N(-100), N(-50), N(-50)),
       Info(<<"u", "s", "d", "c">>, <<"u", "s", "d", "c">>, USDC, <<>>, N(900), N(2), N(1), N(1),
            N(1), N(1), N(1), N(1)),
       Info(<<"h", "o", "t">>, <<"h", "o", "t">>, <<"H", "o", "t">>, <<>>, N(900), Null, Null, N(1),
            N(1), N(1), N(1), N(1)) >>

\* The k-th of a crowd of market records that differ in name and volume.
CrowdMarket(k) ==
    LET id == <<"Y", Digits[(k \div 100) + 1], Digits[((k \div 10) % 10) + 1],
                Digits[(k % 10) + 1]>>
    IN  Info(id, id, id, <<>>, N(k), N(12), N(9), N(11), N(10), N(10), N(5), N(5))

\* per_page=100: the number of records of a full page.
perPage == 100

\* What the services hold when they answer every request of a refresh with
\* the same data: lists of instruments and tickers; one instrument without
\* ticker, and a page of market records; or that instrument, a full page of
\* market records and a second page of one record.
Givens ==
    LET Given(instruments, tickers, pages) ==
            [instruments |-> instruments, tickers |-> tickers, pages |-> pages,
             coinList |-> <<Coin(<<"b", "t", "c">>, <<"b", "t", "c">>)>>,
             marketInfo |-> <<Detail(<<"b", "t", "c">>, Bitcoin, <<"b">>)>>]
    IN  { Given(i, t, <<<<>>, <<>>>>) :
              i \in SubLists(GivenInstruments), t \in SubLists(GivenTickers) }
        \cup { Given(<<GivenInstruments[1]>>, <<>>, <<m, <<>>>>) : m \in SubLists(GivenMarkets) }
        \cup { Given(<<GivenInstruments[1]>>, <<>>,
                     <<[k \in 1..perPage |-> CrowdMarket(k)], <<CrowdMarket(perPage + 1)>>>>) }

\* Nothing fixed: the services answer as the feeds say.
NothingGiven ==
    [instruments |-> <<>>, tickers |-> <<>>, pages |-> <<<<>>, <<>>>>,
     coinList |-> <<>>, marketInfo |-> <<>>]

\* ------------------------------------------------------------ state machine

MaxRuns == 2

VARIABLES
    tokens,          \* let tokens
    filteredTokens,  \* let filteredTokens
    searchValue,     \* searchInput.value
    status,          \* statusEl: its textContent and style.display
    run,             \* the invocations of fetchData: position and locals
    popAmplitude,    \* history: the amplitude each token of tokens was scored with
    popPlace,        \* history: the place each token of tokens had before the sort
    popVolume,       \* history: the volRatio and maxVolume each token was scored with
    given            \* the bodies the services answer with, where they are fixed

vars ==
    <<tokens, filteredTokens, searchValue, status, run, popAmplitude, popPlace, popVolume,
      given>>

\* An invocation of fetchData: its position (pc: the request it awaits), its
\* locals, and its history: the outcome it ended in, whether it entered the
\* fallback stage, the length of aggregated once the loop over
\* baseCurrencies is through (-1 before), the number of records it skipped
\* for their prices or amplitude, the number of requests it issued, the
\* sources that failed, the invocations that were under way when it was
\* triggered (over), whether it is the one that ended last, and what it
\* assigned to tokens (wrote).
Idle ==
    [pc |-> "idle", byBase |-> <<>>, aggregated |-> <<>>, markets |-> <<>>, page |-> 0,
     coinList |-> <<>>, outcome |-> "none", ranFallback |-> FALSE, primaryCount |-> -1,
     skipped |-> 0, fetches |-> 0, failed |-> {}, over |-> {}, last |-> FALSE,
     wrote |-> <<>>]

\* The page as the script leaves it once it is loaded (lines 1-48).
Loaded ==
    /\ tokens = <<>>
    /\ filteredTokens = <<>>
    /\ searchValue = <<>>
    /\ status = [text |-> "", display |-> "block"]
    /\ run = [r \in 1..MaxRuns |-> Idle]
    /\ popAmplitude = <<>>
    /\ popPlace = <<>>
    /\ popVolume = <<>>

Init == Loaded /\ given = NothingGiven

\* History: every record of s with the place it has in s, and with the
\* volRatio and the maxVolume it is scored with.
Placed(s, maxVolume) ==
    [i \in DOMAIN s |->
        s[i] @@ [place |-> i,
                 volRatio |-> VolRatio(s[i].totalVolume, maxVolume),
                 maxVolume |-> maxVolume]]

\* The records of s without that history.
Unplaced(s) ==
    [i \in DOMAIN s |->
        [f \in (DOMAIN s[i]) \ {"place", "volRatio", "maxVolume"} |-> s[i][f]]]

\* History: the volRatio and maxVolume of the records of s.
Volumes(s) ==
    [i \in DOMAIN s |-> [volRatio |-> s[i].volRatio, maxVolume |-> s[i].maxVolume]]

InFlight(r) == run[r].pc \notin {"idle", "done"}

\* A response that is no usable batch for the adapter reading it.
FailedResponse(resp) == resp.kind # "ok"

Failing(r, source, resp) ==
    IF FailedResponse(resp) THEN run[r].failed \cup {source} ELSE run[r].failed

\* The run r is over with the given outcome; its locals are dropped.
Finished(r, outcome, skipped, failed) ==
    [Idle EXCEPT !.pc = "done",
                 !.outcome = outcome,
                 !.ranFallback = run[r].ranFallback,
                 !.primaryCount = run[r].primaryCount,
                 !.skipped = skipped,
                 !.fetches = run[r].fetches,
                 !.failed = failed,
                 !.over = run[r].over]

\* History: run after the invocation r has ended as record says: r is the
\* one that ended last, and wrote is what it assigned to tokens, if it did.
Ended(r, record, wrote) ==
    [q \in DOMAIN run |->
        IF q = r THEN [record EXCEPT !.last = TRUE, !.wrote = wrote]
        ELSE [run[q] EXCEPT !.last = FALSE]]

\* The refresh button is clicked, or the document has loaded: fetchData runs
\* up to its first await (the instruments request).
Start(r) ==
    /\ ~InFlight(r)
    /\ run' = [q \in DOMAIN run |->
                  IF q = r
                  THEN [Idle EXCEPT !.pc = "instruments", !.fetches = 1,
                                    !.over = { p \in DOMAIN run : InFlight(p) }]
                  ELSE [run[q] EXCEPT !.over = @ \ {r}]]
    /\ status' = [text |-> "Fetching data...", display |-> "block"]
    /\ UNCHANGED <<tokens, filteredTokens, searchValue, popAmplitude, popPlace, popVolume, given>>

\* instruments after lines 50-67
Instruments(resp) == IF resp.kind = "ok" THEN LiveSwaps(resp.data) ELSE <<>>

\* The instruments request settles: lines 52-103, up to the early exit or
\* the tickers request.
InstrumentsResp(r, resp) ==
    /\ run[r].pc = "instruments"
    /\ LET byBase == InstrumentsByBase(Instruments(resp))
       IN  IF Len(byBase) = 0
           THEN /\ run' = Ended(r, Finished(r, "NoInstruments", 0, Failing(r, "instruments", resp)), <<>>)
                /\ status' = [status EXCEPT !.text = "No BloFin perpetual instruments found."]
           ELSE /\ run' = [run EXCEPT ![r].pc = "tickers",
                                      ![r].byBase = byBase,
                                      ![r].fetches = @ + 1,
                                      ![r].failed = Failing(r, "instruments", resp)]
                /\ status' = status
    /\ UNCHANGED <<tokens, filteredTokens, searchValue, popAmplitude, popPlace, popVolume, given>>

\* History: the bases of byBase with a volume for which nothing was pushed.
SkippedBases(byBase, tickerMap) ==
    Cardinality({ i \in DOMAIN byBase :
        AggregateBase(byBase[i], tickerMap).counted
            /\ ~AggregateBase(byBase[i], tickerMap).pushed })

\* History: the records of markets with a volume for which nothing was pushed.
SkippedMarkets(markets) ==
    Cardinality({ i \in DOMAIN markets :
        FallbackCounted(markets[i])
            /\ FallbackAmplitudeSkipped(FallbackAmplitude(markets[i])) })

\* tickerMap after lines 99-116
Tickers(resp) == IF resp.kind = "ok" THEN TickerMap(resp.data) ELSE <<>>

\* The tickers request settles: lines 104-297, up to the first request of
\* the fallback stage or the coin list request.
TickersResp(r, resp) ==
    /\ run[r].pc = "tickers"
    /\ LET tickerMap  == Tickers(resp)
           aggregated == Aggregated(run[r].byBase, tickerMap)
           maxVolume  == MaxVolume(run[r].byBase, tickerMap)
       IN  IF FallbackNeeded(aggregated)
           THEN run' = [run EXCEPT ![r].pc = "fallback",
                                   ![r].page = 1,
                                   ![r].ranFallback = TRUE,
                                   ![r].primaryCount = Len(aggregated),
                                   ![r].skipped = SkippedBases(run[r].byBase, tickerMap),
                                   ![r].byBase = <<>>,
                                   ![r].fetches = @ + 1,
                                   ![r].failed = Failing(r, "tickers", resp)]
           ELSE \E sorted \in SortResults(Placed(Scored(aggregated, maxVolume), maxVolume)) :
                    run' = [run EXCEPT ![r].pc = "coinList",
                                       ![r].aggregated = Highlight(sorted),
                                       ![r].primaryCount = Len(aggregated),
                                       ![r].skipped = SkippedBases(run[r].byBase, tickerMap),
                                       ![r].byBase = <<>>,
                                       ![r].fetches = @ + 1,
                                       ![r].failed = Failing(r, "tickers", resp)]
    /\ UNCHANGED <<tokens, filteredTokens, searchValue, status, popAmplitude, popPlace, popVolume, given>>

\* A variant of Fail that clears the population when it reports the failure.
FailClearing(r, source) ==
    /\ run' = Ended(r, Finished(r, "Failed", run[r].skipped, run[r].failed \cup {source}), <<>>)
    /\ status' = [status EXCEPT
           !.text = "Failed to fetch data. Please check your internet connection or try again later."]
    /\ tokens' = <<>>
    /\ filteredTokens' = <<>>
    /\ UNCHANGED <<searchValue, popAmplitude, popPlace, popVolume, given>>

\* The catch blocks of lines 273-278 and 374-379.
Fail(r, source) ==
    /\ run' = Ended(r, Finished(r, "Failed", run[r].skipped, run[r].failed \cup {source}), <<>>)
    /\ status' = [status EXCEPT
           !.text = "Failed to fetch data. Please check your internet connection or try again later."]
    /\ UNCHANGED <<tokens, filteredTokens, searchValue, popAmplitude, popPlace, popVolume, given>>

\* Whether awaiting a page of the fallback stage throws (lines 181-183: the
\* fetch and the json() call are inside no try of their own).
PageThrows(resp) == resp.kind \in {"rejected", "badJson"}

\* markets after one page (lines 182-185)
WithPage(markets, resp) == IF resp.kind = "ok" THEN markets \o resp.data ELSE markets

\* A variant of FinishFallback in which an invocation that a later-triggered
\* one has overtaken drops the population it has built instead of storing it.
FinishFallbackIfLatest(r, markets, failed) ==
    \E sorted \in SortResults(Placed(FallbackScored(FallbackAgg(markets),
                                                     FallbackMaxVol(markets)),
                                      FallbackMaxVol(markets))) :
        LET fallbackAgg == Highlight(Unplaced(sorted))
            overtaken == \E q \in DOMAIN run : r \in run[q].over
        IN  /\ IF overtaken
               THEN UNCHANGED <<tokens, filteredTokens, popAmplitude, popPlace, popVolume>>
               ELSE /\ tokens' = fallbackAgg
                    /\ filteredTokens' = fallbackAgg
                    /\ popAmplitude' = [i \in DOMAIN fallbackAgg |-> fallbackAgg[i].amplitude]
                    /\ popPlace' = [i \in DOMAIN sorted |-> sorted[i].place]
                    /\ popVolume' = Volumes(sorted)
            /\ IF Len(fallbackAgg) > 0
               THEN /\ status' = [status EXCEPT !.display = "none"]
                    /\ run' = Ended(r, Finished(r, "FallbackSuccess", SkippedMarkets(markets), failed), fallbackAgg)
               ELSE /\ status' = [status EXCEPT !.text = "No market tokens available."]
                    /\ run' = Ended(r, Finished(r, "NoMarketTokens", SkippedMarkets(markets), failed), fallbackAgg)
            /\ UNCHANGED <<searchValue, given>>

\* Lines 187-272 once the last page is in: the fallback population is
\* scored, sorted, highlighted and stored.
FinishFallback(r, markets, failed) ==
    \E sorted \in SortResults(Placed(FallbackScored(FallbackAgg(markets),
                                                     FallbackMaxVol(markets)),
                                      FallbackMaxVol(markets))) :
        LET fallbackAgg == Highlight(Unplaced(sorted))
        IN  /\ tokens' = fallbackAgg
            /\ filteredTokens' = fallbackAgg
            /\ popAmplitude' = [i \in DOMAIN fallbackAgg |-> fallbackAgg[i].amplitude]
            /\ popPlace' = [i \in DOMAIN sorted |-> sorted[i].place]
            /\ popVolume' = Volumes(sorted)
            /\ IF Len(fallbackAgg) > 0
               THEN /\ status' = [status EXCEPT !.display = "none"]
                    /\ run' = Ended(r, Finished(r, "FallbackSuccess", SkippedMarkets(markets), failed), fallbackAgg)
               ELSE /\ status' = [status EXCEPT !.text = "No market tokens available."]
                    /\ run' = Ended(r, Finished(r, "NoMarketTokens", SkippedMarkets(markets), failed), fallbackAgg)
            /\ UNCHANGED <<searchValue, given>>

\* A page request of the fallback stage settles: lines 179-186, then either
\* the next page request or lines 187-272.
FallbackResp(r, resp) ==
    /\ run[r].pc = "fallback"
    /\ LET source == IF run[r].page = 1 THEN "page1" ELSE "page2"
           markets == WithPage(run[r].markets, resp)
       IN  IF PageThrows(resp) THEN Fail(r, source)
           ELSE IF run[r].page < fallbackPages
           THEN /\ run' = [run EXCEPT ![r].page = @ + 1,
                                      ![r].markets = markets,
                                      ![r].fetches = @ + 1,
                                      ![r].failed = Failing(r, source, resp)]
                /\ UNCHANGED <<tokens, filteredTokens, searchValue, status, popAmplitude, popPlace, popVolume, given>>
           ELSE FinishFallback(r, markets, Failing(r, source, resp))

\* A variant of FinishPrimary that stores tokens and leaves filteredTokens
\* to a later step.
FinishPrimaryTokensOnly(r, coinList, marketInfo, failed) ==
    /\ tokens' = BuildTokens(run[r].aggregated, coinList, marketInfo)
    /\ popAmplitude' = [i \in DOMAIN run[r].aggregated |->
                           run[r].aggregated[i].predictedAmplitude]
    /\ popPlace' = [i \in DOMAIN run[r].aggregated |-> run[r].aggregated[i].place]
    /\ popVolume' = Volumes(run[r].aggregated)
    /\ status' = [status EXCEPT !.display = "none"]
    /\ run' = Ended(r, Finished(r, "Success", run[r].skipped, failed), tokens')
    /\ UNCHANGED <<filteredTokens, searchValue, given>>

\* Lines 349-373: the primary population is given names and images and
\* stored.
FinishPrimary(r, coinList, marketInfo, failed) ==
    /\ tokens' = BuildTokens(run[r].aggregated, coinList, marketInfo)
    /\ filteredTokens' = tokens'
    /\ popAmplitude' = [i \in DOMAIN run[r].aggregated |->
                           run[r].aggregated[i].predictedAmplitude]
    /\ popPlace' = [i \in DOMAIN run[r].aggregated |-> run[r].aggregated[i].place]
    /\ popVolume' = Volumes(run[r].aggregated)
    /\ IF Len(tokens') = 0
       THEN /\ status' = [status EXCEPT !.text = "No BloFin perpetual tokens available."]
            /\ run' = Ended(r, Finished(r, "NoTokens", run[r].skipped, failed), tokens')
       ELSE /\ status' = [status EXCEPT !.display = "none"]
            /\ run' = Ended(r, Finished(r, "Success", run[r].skipped, failed), tokens')
    /\ UNCHANGED <<searchValue, given>>

\* Whether what follows the awaited body throws: coinList.forEach and
\* marketInfo.forEach on a body that is no array (lines 309 and 345).
ListThrows(resp) == resp.kind = "badShape"

\* coinList after lines 297-307, marketInfo after lines 328-342
ListOf(resp) == IF resp.kind = "ok" THEN resp.data ELSE <<>>

\* The coin list request settles: lines 302-333, then either the market
\* detail request or lines 343-373.
CoinListResp(r, resp) ==
    /\ run[r].pc = "coinList"
    /\ IF ListThrows(resp) THEN Fail(r, "coinList")
       ELSE IF IdsToFetch(run[r].aggregated, ListOf(resp))
       THEN /\ run' = [run EXCEPT ![r].pc = "marketInfo",
                                  ![r].coinList = ListOf(resp),
                                  ![r].fetches = @ + 1,
                                  ![r].failed = Failing(r, "coinList", resp)]
            /\ UNCHANGED <<tokens, filteredTokens, searchValue, status, popAmplitude, popPlace, popVolume, given>>
       ELSE FinishPrimary(r, ListOf(resp), <<>>, Failing(r, "coinList", resp))

\* The market detail request settles: lines 336-373.
MarketInfoResp(r, resp) ==
    /\ run[r].pc = "marketInfo"
    /\ IF ListThrows(resp) THEN Fail(r, "marketInfo")
       ELSE FinishPrimary(r, run[r].coinList, ListOf(resp), Failing(r, "marketInfo", resp))

\* The input event of the search box: filterTokens.
Input(value) ==
    /\ value # searchValue
    /\ searchValue' = value
    /\ filteredTokens' = FilterTokens(tokens, value)
    /\ IF Len(filteredTokens') = 0
       THEN status' = [text |-> "No tokens found matching your search.", display |-> "block"]
       ELSE status' = [status EXCEPT !.display = "none"]
    /\ UNCHANGED <<tokens, run, popAmplitude, popPlace, popVolume, given>>

\* A request of one of the invocations runIds settles with a response of feed.
Settles(runIds, feed) ==
    \/ \E r \in runIds, resp \in feed.instruments : InstrumentsResp(r, resp)
    \/ \E r \in runIds, resp \in feed.tickers : TickersResp(r, resp)
    \/ \E r \in runIds, page \in 1..fallbackPages :
           \E resp \in feed.markets[page] : run[r].page = page /\ FallbackResp(r, resp)
    \/ \E r \in runIds, resp \in feed.coinList : CoinListResp(r, resp)
    \/ \E r \in runIds, resp \in feed.marketInfo : MarketInfoResp(r, resp)

\* Refreshes that may overlap and follow one another, on a feed of few
\* records, with the search box in use at any time.
Next ==
    \/ \E r \in 1..MaxRuns : Start(r)
    \/ Settles(1..MaxRuns, NarrowFeed)
    \/ \E value \in NarrowFeed.values : Input(value)

Spec == Init /\ [][Next]_vars

\* The first refresh after the page has loaded, on the feed of every kind of
\* record.  What a refresh computes does not depend on the refreshes before
\* it: fetchData reads neither tokens nor filteredTokens.  Nor does it read
\* the search box, which is used here once the refresh is over.
NextFeed ==
    \/ run[1].pc = "idle" /\ Start(1)
    \/ Settles({1}, WideFeed)
    \/ run[1].pc = "done" /\ \E value \in WideFeed.values : Input(value)

SpecFeed == Init /\ [][NextFeed]_vars

\* The feed of services that answer with what they are given to hold.
GivenFeed ==
    LET Ok(data) == { [kind |-> "ok", data |-> data] }
    IN  [instruments |-> Ok(given.instruments),
         tickers     |-> Ok(given.tickers),
         markets     |-> <<Ok(given.pages[1]), Ok(given.pages[2])>>,
         coinList    |-> Ok(given.coinList),
         marketInfo  |-> Ok(given.marketInfo),
         values      |-> { <<>>, <<"B", "T">> }]

InitGiven == Loaded /\ given \in Givens

\* The first refresh after the page has loaded, against services that hold
\* one of Givens, and the search box once the refresh is over: what is
\* stored can be set against what the services held.
NextGiven ==
    \/ run[1].pc = "idle" /\ Start(1)
    \/ Settles({1}, GivenFeed)
    \/ run[1].pc = "done" /\ \E value \in GivenFeed.values : Input(value)

SpecGiven == InitGiven /\ [][NextGiven]_vars

\* ------------------------------------------------------------------- claims

Runs == DOMAIN run

Done(r) == run[r].pc = "done"

\* The outcomes in which a refresh stored a population and showed the table.
Stored == {"Success", "FallbackSuccess"}

\* The outcomes that report that there is nothing to show.
NoData == {"NoInstruments", "NoMarketTokens", "NoTokens"}

\* C1: a refresh whose primary stage produced no scored record (no
\* instrument, no ticker, or every record skipped) has run the fallback
\* stage by the time it reports its outcome.
C1_FallbackAfterEmptyPrimary ==
    \A r \in Runs : Done(r) /\ run[r].primaryCount <= 0 => run[r].ranFallback

\* C2: a refresh enters the fallback stage only if its primary stage
\* produced no scored record, whatever the scores of the records are.
C2_NoFallbackAfterScoredPrimary ==
    \A r \in Runs : run[r].ranFallback => run[r].primaryCount = 0

\* A refresh has stored a primary population whose scores are all 0, and has
\* not entered the fallback stage.
C2_Witness ==
    /\ Done(1) /\ run[1].outcome = "Success" /\ ~run[1].ranFallback
    /\ Len(tokens) >= 1
    /\ \A i \in DOMAIN tokens :
           tokens[i].momentumScore = N(0) /\ tokens[i].completion = N(100)

\* C3: a refresh in which one source failed (a rejected request, a non-OK
\* status, a body that does not parse or has the wrong shape) does not end
\* in the "Failed to fetch data" outcome.
C3_SourceFailureContained ==
    \A r \in Runs :
        Done(r) /\ Cardinality(run[r].failed) = 1 => run[r].outcome # "Failed"

\* C4: a refresh ends after at most 2 + fallbackPages requests, and one that
\* ends without a population to show ends in a no-data outcome and leaves
\* tokens empty.
C4_EmptyEndsInNoData ==
    [][\A r \in Runs :
          ~Done(r) /\ run'[r].pc = "done" =>
              /\ run'[r].fetches <= 2 + fallbackPages
              /\ run'[r].outcome \notin Stored =>
                     run'[r].outcome \in NoData /\ tokens' = <<>>]_vars

\* C5: the view is the filter of the population by the text of the search
\* box.
C5_ViewIsFilterOfPopulation == filteredTokens = FilterTokens(tokens, searchValue)

\* C6: at most one invocation of fetchData is in flight.
C6_SingleRunInFlight == Cardinality({ r \in Runs : InFlight(r) }) <= 1

\* C7: every token of the population has a completion within [0, 100].
C7_CompletionInRange ==
    \A i \in DOMAIN tokens :
        Ge(tokens[i].completion, N(0)) /\ Le(tokens[i].completion, N(100))

\* C8: every token of the population, and so of the view, and every record
\* of aggregated, was scored with a strictly positive amplitude.
C8_PositiveAmplitude ==
    /\ Len(popAmplitude) = Len(tokens)
    /\ \A i \in DOMAIN popAmplitude : Gt(popAmplitude[i], N(0))
    /\ \A j \in DOMAIN filteredTokens : \E i \in DOMAIN tokens : filteredTokens[j] = tokens[i]
    /\ \A r \in Runs : \A i \in DOMAIN run[r].aggregated :
           Gt(run[r].aggregated[i].predictedAmplitude, N(0))

\* A refresh has skipped a record for its prices or amplitude and stored the
\* others.
C8_Witness ==
    /\ Done(1) /\ run[1].outcome \in Stored /\ run[1].skipped >= 1
    /\ Len(tokens) >= 1

\* C9: the population is in non-increasing order of momentumScore, and
\* tokens of equal score stand in the order they had before the sort.
C9_SortedByScore ==
    /\ \A i \in 1..(Len(tokens) - 1) :
           Ge(tokens[i].momentumScore, tokens[i + 1].momentumScore)
    /\ \A i, j \in DOMAIN tokens :
           /\ i < j
           /\ Ge(tokens[i].momentumScore, tokens[j].momentumScore)
           /\ Ge(tokens[j].momentumScore, tokens[i].momentumScore)
           => popPlace[i] < popPlace[j]

\* max(1, round(n * 0.10)) in integers: the halves round upwards.
TopDecile(n) == IF (n + 5) \div 10 > 1 THEN (n + 5) \div 10 ELSE 1

\* C10: in a population of n >= 1 tokens, the highlighted tokens are exactly
\* the first max(1, round(n * 0.10)) in rank order.
C10_HighlightTopDecile ==
    \A i \in DOMAIN tokens : tokens[i].highlight <=> i <= TopDecile(Len(tokens))

\* A population of 15 tokens, of which the first two are highlighted.
C10_Witness ==
    /\ Len(tokens) = 15
    /\ tokens[1].highlight /\ tokens[2].highlight /\ ~tokens[3].highlight

\* The queries the filter is tried with.
Queries == { <<>>, <<" ", "E", "T">>, <<"x", "1">>, <<"B">>, <<"X">>, <<"t", "c", " ">> }

\* C11: filtering is idempotent: for every query q, the filter with q of the
\* filter with q of the population is the filter with q of the population.
C11_FilterIdempotent ==
    \A q \in Queries :
        FilterTokens(FilterTokens(tokens, q), q) = FilterTokens(tokens, q)

\* A population of which some query keeps at least two tokens and drops at
\* least one.
C11_Witness ==
    \E q \in Queries :
        /\ Len(FilterTokens(tokens, q)) >= 2
        /\ Len(FilterTokens(tokens, q)) < Len(tokens)

\* Whether q occurs in s as a run of consecutive characters.
Occurs(s, q) == \E a, b \in 0..Len(s) : SubSeq(s, a + 1, b) = q

\* The places of the tokens whose name or symbol, case ignored, holds q.
Holding(q) ==
    { i \in DOMAIN tokens :
        \/ Occurs(ToLowerCase(tokens[i].name), ToLowerCase(q))
        \/ Occurs(ToLowerCase(tokens[i].symbol), ToLowerCase(q)) }

\* C12: an input event sets the view to the tokens of the population whose
\* name or symbol holds the trimmed query, case ignored, in the order of
\* the population; with an empty query the view is the population.
C12_FilterIsSubsequence ==
    [][searchValue' # searchValue =>
          LET q    == Trim(searchValue')
              keep == Holding(q)
          IN  /\ tokens' = tokens
              /\ Len(filteredTokens') = Cardinality(keep)
              /\ \A i \in keep :
                     filteredTokens'[Cardinality({ j \in keep : j <= i })] = tokens[i]
              /\ q = <<>> => filteredTokens' = tokens]_vars

\* A view of several tokens, fewer than the population, under a query.
C12_Witness ==
    /\ Trim(searchValue) # <<>>
    /\ filteredTokens = FilterTokens(tokens, searchValue)
    /\ Len(filteredTokens) >= 2
    /\ Len(filteredTokens) < Len(tokens)

\* The place in given.tickers of the ticker that stands for the instrument
\* id (the last one of that id), 0 when there is none.
GivenTickerAt(id) ==
    LET at == { k \in DOMAIN given.tickers : given.tickers[k].instId = id }
    IN  IF at = {} THEN 0 ELSE CHOOSE k \in at : \A j \in at : j <= k

\* The places in given.instruments of the live SWAP instruments of base
\* whose ticker has a numeric volume.
GivenSummed(base) ==
    { k \in DOMAIN given.instruments :
        LET inst == given.instruments[k]
        IN  /\ inst.instType = "SWAP" /\ inst.state = "live"
            /\ inst.baseCurrency = base
            /\ GivenTickerAt(inst.instId) # 0
            /\ ~IsNaN(ParseFloat(given.tickers[GivenTickerAt(inst.instId)].volCurrency24h)) }

\* The sum of the volumes of the tickers of the instruments at places.
RECURSIVE GivenSum(_)
GivenSum(places) ==
    IF places = {} THEN N(0)
    ELSE LET k == CHOOSE p \in places : TRUE
         IN  Add(ParseFloat(given.tickers[GivenTickerAt(given.instruments[k].instId)].volCurrency24h),
                 GivenSum(places \ {k}))

\* The 24h volume of base over all of its instruments.
GivenVolume(base) == GivenSum(GivenSummed(base))

\* C13: the totalVolume of a token of the primary stage is the sum of the 24h
\* volumes of all live SWAP instruments of its base that have a ticker with
\* a numeric volume, and of those only.
C13_VolumeSummedPerBase ==
    run[1].outcome = "Success" =>
        \A i \in DOMAIN tokens : tokens[i].totalVolume = GivenVolume(tokens[i].symbol)

\* BTC is stored with the volume 150 of its two live instruments (100 and
\* 50), next to a suspended instrument of BTC and an instrument of ETH that
\* have tickers with volumes of their own.
C13_Witness ==
    /\ run[1].outcome = "Success"
    /\ \E i \in DOMAIN tokens : tokens[i].symbol = BTC /\ tokens[i].totalVolume = N(150)
    /\ Cardinality(GivenSummed(BTC)) = 2
    /\ GivenTickerAt(<<"B", "3">>) # 0
    /\ GivenSummed(ETH) # {}

\* C14: no token whose lower-cased symbol is on the stable/fiat denylist is
\* ever in the population, whichever stage produced it.
C14_NoStableSymbol ==
    \A i \in DOMAIN tokens : ToLowerCase(tokens[i].symbol) \notin stableSymbols

\* The market records the services held, over both pages.
GivenRecords == given.pages[1] \o given.pages[2]

\* Whether the token at place i comes of a market record that carries
\* neither of the two 24h changes.
ChangeMissing(i) ==
    /\ run[1].outcome = "FallbackSuccess"
    /\ \E k \in DOMAIN GivenRecords :
           /\ GivenRecords[k].name = tokens[i].name
           /\ GivenRecords[k].price_change_percentage_24h_in_currency = Undefined
           /\ GivenRecords[k].price_change_percentage_24h = Undefined

\* C15 as stated: a token is pumping when its price change is above 0,
\* dumping when it is below 0, and neutral when it is exactly 0.
C15_CategoryBySign ==
    \A i \in DOMAIN tokens :
        /\ Gt(tokens[i].priceChange24, N(0)) => tokens[i].category = "pumping"
        /\ Lt(tokens[i].priceChange24, N(0)) => tokens[i].category = "dumping"
        /\ tokens[i].priceChange24 = N(0) => tokens[i].category = "neutral"

\* C15, amended: a token is pumping when its 24h change is 0 or above,
\* dumping when it is below 0 or when its record carries no 24h change; no
\* token is neutral.
C15_CategoryOfTwo ==
    \A i \in DOMAIN tokens :
        /\ tokens[i].category \in {"pumping", "dumping"}
        /\ tokens[i].category = "pumping"
               <=> (Ge(tokens[i].priceChange24, N(0)) /\ ~ChangeMissing(i))

\* ETH is stored by the primary stage with a last price that is its open
\* price: a change of exactly 0, and the category pumping.
C15_Witness ==
    /\ run[1].outcome = "Success"
    /\ \E i \in DOMAIN tokens :
           /\ tokens[i].symbol = ETH
           /\ tokens[i].priceChange24 = N(0)
           /\ tokens[i].category = "pumping"

\* 1 - completion / 100 of the token at place i.
EarlyFactor(i) == Sub(N(1), Div(tokens[i].completion, N(100)))

\* Whether the tokens at places i and j have the same share of volume and
\* the same completion.
SameShareAndCompletion(i, j) ==
    /\ Ge(popVolume[i].volRatio, popVolume[j].volRatio)
    /\ Ge(popVolume[j].volRatio, popVolume[i].volRatio)
    /\ Ge(tokens[i].completion, tokens[j].completion)
    /\ Ge(tokens[j].completion, tokens[i].completion)

C17_ValidPriceAndChange ==
    \A i \in DOMAIN tokens :
        /\ tokens[i].current_price \notin {Null, Undefined}
        /\ Gt(tokens[i].current_price, N(0))
        /\ run[1].outcome = "FallbackSuccess" =>
               \A k \in DOMAIN GivenRecords :
                   GivenRecords[k].name = tokens[i].name
                       => FallbackPriceChange24(GivenRecords[k]) \notin {Null, Undefined}

\* filtered.slice(0, 100) of the CoinGecko variant of the refresh.
TopN == 100

C19_FiniteValues ==
    \A i \in DOMAIN tokens :
        /\ IsFinite(ToNumber(tokens[i].priceChange24))
        /\ IsFinite(ToNumber(tokens[i].completion))
        /\ IsFinite(ToNumber(tokens[i].momentumScore))

\* The greatest of a set of numbers that is not empty.
Greatest(vols) == CHOOSE v \in vols : \A w \in vols : Le(w, v)

\* The volumes of the tokens of the population.
TokenVolumes == { tokens[i].totalVolume : i \in DOMAIN tokens }

\* The volumes the refresh met on its way: of every base with live SWAP
\* instruments that passes the test of stableBases and has a volume above 0
\* (primary stage), of every market record that is no stablecoin and has a
\* volume above 0 (fallback stage), whether or not a token came of it.
GivenVolumes ==
    IF run[1].outcome = "Success"
    THEN { v \in { GivenVolume(given.instruments[k].baseCurrency) :
                     k \in { j \in DOMAIN given.instruments :
                               /\ GivenSummed(given.instruments[j].baseCurrency) # {}
                               /\ given.instruments[j].baseCurrency \notin stableBases } } :
             Gt(v, N(0)) }
    ELSE { v \in { ToNumber(GivenRecords[k].total_volume) :
                     k \in { j \in DOMAIN GivenRecords :
                               ToLowerCase(GivenRecords[j].symbol) \notin stableSymbols } } :
             Gt(v, N(0)) }

\* C20 as stated: the volume share of a token is its volume divided by the
\* greatest volume among the tokens of the population, so that the token of
\* the greatest volume has a share of exactly 1.
C20_ShareOfPopulationMax ==
    \A i \in DOMAIN tokens :
        popVolume[i].volRatio = Div(tokens[i].totalVolume, Greatest(TokenVolumes))

\* C20, amended: the volume share of a token is its volume divided by the
\* greatest volume the refresh met, the volumes of records dropped for
\* their prices or amplitude included; it is above 0 and at most 1.
C20_ShareOfMetMax ==
    \A i \in DOMAIN tokens :
        /\ popVolume[i].maxVolume = Greatest(GivenVolumes)
        /\ popVolume[i].volRatio = Div(tokens[i].totalVolume, Greatest(GivenVolumes))
        /\ Gt(popVolume[i].volRatio, N(0))
        /\ Le(popVolume[i].volRatio, N(1))

\* The token of the greatest volume has a share below 1: a record of a
\* greater volume was dropped.
C20_Witness ==
    \E i \in DOMAIN tokens :
        /\ tokens[i].totalVolume = Greatest(TokenVolumes)
        /\ Lt(popVolume[i].volRatio, N(1))
        /\ Gt(Greatest(GivenVolumes), tokens[i].totalVolume)

Wrote == Stored \cup {"NoMarketTokens", "NoTokens"}

\* Whether pop is a population that is through scoring and highlighting:
\* every token has its score and its mark, and the marked tokens are the
\* first tenth.
Complete(pop) ==
    \A i \in DOMAIN pop :
        /\ {"momentumScore", "highlight", "category", "completion"} \subseteq DOMAIN pop[i]
        /\ pop[i].highlight <=> i <= TopDecile(Len(pop))

C24_LastFinisherWins ==
    \A r \in Runs :
        (Done(r) /\ run[r].last /\ run[r].outcome \in Wrote) => tokens = run[r].wrote

\* Two runs that overlapped have both stored a population; the one that
\* was triggered first finished last, and tokens is its population, not
\* that of the run triggered after it.
C24_Witness ==
    \E r, q \in Runs :
        /\ Done(r) /\ Done(q)
        /\ r \in run[q].over
        /\ run[r].last
        /\ run[r].outcome \in Stored /\ run[q].outcome \in Stored
        /\ run[q].wrote # run[r].wrote
        /\ tokens = run[r].wrote

\* C25: the population holds at most one token per asset key: no two
\* tokens of tokens have the same symbol, compared without regard to case.
C25_OneTokenPerSymbol ==
    \A i, j \in DOMAIN tokens :
        ToLowerCase(tokens[i].symbol) = ToLowerCase(tokens[j].symbol) => i = j

====
